---- MODULE Spec2Model ----
(***************************************************************************)
(* A model of shasum.py: SHA-1 fingerprints kept in extended attributes,   *)
(* their verification, and the hard-link duplicate grouping.               *)
(*                                                                         *)
(* Four specifications share the variables:                                *)
(*   Spec       the program as started from the command line (__main__),   *)
(*              one or more invocations over the same tree;                *)
(*   SpecEntry  the methods of one MetaDataEntry called in any order, as a *)
(*              unit test or another caller of the class would call them;  *)
(*   SpecGroup  FileSystemTree._get_duplicates and the two printers run    *)
(*              over an arbitrary list of entries, the printed script run  *)
(*              by /bin/sh and the tree scanned again;                     *)
(*   SpecQuote  shellquote applied to arbitrary file names and read back   *)
(*              the way a POSIX shell reads a command line.                *)
(*                                                                         *)
(* Modelling conventions                                                   *)
(*   - a file's bytes are an abstract content value; sha1hex maps contents *)
(*     to hex digests injectively (SHA-1 taken as collision free);         *)
(*   - a point in time is an integer count of seconds; a day has DayLen    *)
(*     seconds; a persisted date string is the tuple of its fields:        *)
(*     <<day, second of day>> for "%Y-%m-%d %H:%M:%S" and <<day>> for the  *)
(*     legacy "%Y-%m-%d";                                                  *)
(*   - Python's None is None for a digest and NoDate for a time/date;      *)
(*     a struct_time in memory is the one-element tuple <<t>>;             *)
(*   - a file name is a sequence of one-character strings.                 *)
(***************************************************************************)
EXTENDS Integers, Sequences, FiniteSets, TLC

\* ------------------------------------------------------------------ bounds
\* The clock runs from 0 to MaxTime.
MaxTime == 1
\* Seconds in a day (86400 scaled down).
DayLen == 2
\* Largest age, in days, given to --verify besides the default.
MaxAge == 0
\* Invocations of the program in one behaviour of Spec or SpecGroup.
MaxRuns == 2
\* Cap on CursesUi.scanned_items in SpecEntry (no loop bounds it there).
MaxScanned == 2
\* Entries handed to the grouper in SpecGroup.
NumEntries == 3
\* Largest st_nlink of a file.
MaxLinks == 2
\* Terminal heights range over MinScreenLines..MaxScreenLines.
MaxScreenLines == 12
\* Longest file name quoted in SpecQuote.
MaxPathLen == 3

\* --------------------------------------------------------------- constants
\* argparse default of --verify.
DefaultAge == 180
\* The smallest terminal height at which both file windows have a line:
\* (max_y - 7) // 2 - 1 >= 1.
MinScreenLines == 11

None == "None"
NoDate == << >>

\* The trees of the fixtures, in the order `find` lists them.
Tree == << <<"a">>, <<"b", "'">> >>
EntryTree == << <<"a">> >>

Contents == {"c1", "c2"}

VARIABLES
    fs,            \* path -> [data, readable, nlink]: the files on disk
    store,         \* path -> [sha1, sha1date]: the extended attributes
    now,           \* the wall clock
    files,         \* FileSystemTree.files.values(): sequence of MetaDataEntry
    ui,            \* the CursesUi object
    pc,            \* where the invocation (or the harness) is
    idx,           \* position of the running loop in files
    args,          \* the parsed command line
    min_age,       \* verify_files' cutoff, a struct_time
    runs,          \* invocations started so far
    last,          \* the latest call of a MetaDataEntry method and what it did
    known_hashes,  \* _get_duplicates: digest -> index of the representative
    duplicates,    \* _get_duplicates: sequence of [h, dup] in insertion order
    out,           \* lines printed by the printers
    hist           \* what the verification runs so far have reported Failed

vars == <<fs, store, now, files, ui, pc, idx, args, min_age, runs, last,
          known_hashes, duplicates, out, hist>>

\* ------------------------------------------------------------ pure helpers
Range(s) == {s[i] : i \in DOMAIN s}

\* hashlib.sha1(...).hexdigest() of a whole file.
sha1hex(c) == CASE c = "c1" -> "h1"
                [] c = "c2" -> "h2"

Digests == {sha1hex(c) : c \in Contents}

\* time.strftime(DEFAULT_TIME_FORMAT, t)
strftime(t) == <<t \div DayLen, t % DayLen>>

\* parse_facl_output's choice of format: ':' occurs only in the long format.
strptime(s) == IF Len(s) = 2 THEN s[1] * DayLen + s[2]
               ELSE s[1] * DayLen

\* The replacement done with a backslash alone: ' becomes \'.
RECURSIVE shellquote_body_backslash(_)
shellquote_body_backslash(s) ==
    IF s = << >> THEN << >>
    ELSE (IF Head(s) = "'" THEN <<"\\", "'">> ELSE <<Head(s)>>)
         \o shellquote_body_backslash(Tail(s))

\* shellquote(s)
RECURSIVE shellquote_body(_)
shellquote_body(s) ==
    IF s = << >> THEN << >>
    ELSE (IF Head(s) = "'" THEN <<"'", "\\", "'", "'">> ELSE <<Head(s)>>)
         \o shellquote_body(Tail(s))

shellquote(s) == <<"'">> \o shellquote_body(s) \o <<"'">>

\* sh reading the characters of s from position i: mode is "plain", "quote"
\* (inside '...') or "escape" (after an unquoted backslash); word is the word
\* being built, if inword; words are the finished ones; glob tells whether an
\* unquoted * was met (the word would undergo pathname expansion).
RECURSIVE sh_read(_, _, _, _, _, _, _)
sh_read(s, i, mode, word, inword, words, glob) ==
    IF i > Len(s)
    THEN [words |-> IF inword THEN Append(words, word) ELSE words,
          ok |-> mode = "plain", glob |-> glob]
    ELSE LET c == s[i] IN
         IF mode = "quote"
         THEN IF c = "'"
              THEN sh_read(s, i + 1, "plain", word, TRUE, words, glob)
              ELSE sh_read(s, i + 1, "quote", Append(word, c), TRUE, words, glob)
         ELSE IF mode = "escape"
         THEN sh_read(s, i + 1, "plain", Append(word, c), TRUE, words, glob)
         ELSE IF c = "'"
         THEN sh_read(s, i + 1, "quote", word, TRUE, words, glob)
         ELSE IF c = "\\"
         THEN sh_read(s, i + 1, "escape", word, TRUE, words, glob)
         ELSE IF c = " "
         THEN sh_read(s, i + 1, "plain", << >>, FALSE,
                      IF inword THEN Append(words, word) ELSE words, glob)
         ELSE sh_read(s, i + 1, "plain", Append(word, c), TRUE, words,
                      glob \/ c = "*")

\* The words sh makes of the line s.
sh_words(s) == sh_read(s, 1, "plain", << >>, FALSE, << >>, FALSE)

\* ---------------------------------------------------------------- CursesUi
\* init_gui: nlines_file_windows from the terminal height.
nlines_file_windows(max_y) == (max_y - 7) \div 2

\* CursesUi.__init__
NewUi(max_y, total) ==
    [lines |-> nlines_file_windows(max_y), scanned_items |-> 0,
     err_items |-> 0, total_items |-> total,
     completed |-> << >>, errors |-> << >>]

NoUi == NewUi(MinScreenLines, 0)

\* getmaxyx()[0] of the window add_file writes to.
WindowLines(u, window_name) ==
    IF window_name = "completed" THEN u.lines - 1 ELSE u.lines

\* CursesUi.add_file: window_buffer[window_name] after the append and the pop.
add_file(u, window_name, fname) ==
    LET buf == Append(u[window_name], fname)
        cut == IF Len(buf) >= WindowLines(u, window_name) THEN Tail(buf) ELSE buf
    IN [u EXCEPT ![window_name] = cut]

\* CursesUi.update_progress(done=1, error=0)
update_progress(u) == [u EXCEPT !.scanned_items = @ + 1, !.err_items = @ + 0]

\* ----------------------------------------------------------- MetaDataEntry
\* MetaDataEntry.__init__
MetaDataEntry(fname, sha_hash, sha_date) ==
    [fname |-> fname, sha_hash |-> sha_hash, sha_date |-> sha_date]

\* A call in progress: the objects it may change, what it has done so far
\* (did) and whether an exception is propagating (raised).
World(f, s, u) == [files |-> f, store |-> s, ui |-> u, did |-> {}, raised |-> FALSE]

\* MetaDataEntry._write: setfattr is run without check, a failure is silent.
write(w, fname, attr, value, ok) ==
    [w EXCEPT !.store = IF ok THEN [@ EXCEPT ![fname][attr] = value] ELSE @,
              !.did = @ \cup {IF ok THEN "write_" \o attr ELSE "lost_" \o attr}]

\* update without its early return: every call recomputes and rewrites.
update_always(w, i, force, t, ok1, ok2) ==
    LET e == w.files[i] IN
    IF ~fs[e.fname].readable
    THEN [w EXCEPT !.raised = TRUE, !.did = @ \cup {"update", "raise"}]
    ELSE LET h  == sha1hex(fs[e.fname].data)
             w1 == [w EXCEPT !.files[i].sha_hash = h,
                             !.files[i].sha_date = <<t>>,
                             !.did = @ \cup {"update", "sha"}]
             w2 == write(w1, e.fname, "sha1", h, ok1)
         IN write(w2, e.fname, "sha1date", strftime(t), ok2)

\* MetaDataEntry.update on files[i], called at time t; ok1, ok2: whether the
\* two setfattr runs succeed.
update(w, i, force, t, ok1, ok2) ==
    LET e == w.files[i] IN
    IF e.sha_hash # None /\ ~force
    THEN [w EXCEPT !.ui = update_progress(@), !.did = @ \cup {"skip"}]
    ELSE IF ~fs[e.fname].readable
    THEN [w EXCEPT !.raised = TRUE, !.did = @ \cup {"update", "raise"}]
    ELSE LET h  == sha1hex(fs[e.fname].data)
             w1 == [w EXCEPT !.files[i].sha_hash = h,
                             !.files[i].sha_date = <<t>>,
                             !.did = @ \cup {"update", "sha"}]
             w2 == write(w1, e.fname, "sha1", h, ok1)
         IN write(w2, e.fname, "sha1date", strftime(t), ok2)

\* verify that adopts the recomputed digest when it differs from the stored one.
verify_heal(w, i, t, ok1, ok2) ==
    LET e  == w.files[i]
        wv == [w EXCEPT !.did = @ \cup {"verify"}] IN
    IF e.sha_hash = None
    THEN update(wv, i, FALSE, t, ok1, ok2)
    ELSE IF ~fs[e.fname].readable
    THEN [wv EXCEPT !.raised = TRUE, !.did = @ \cup {"raise"}]
    ELSE LET sha_content == sha1hex(fs[e.fname].data) IN
         IF sha_content = e.sha_hash
         THEN LET w1 == [wv EXCEPT !.files[i].sha_date = <<t>>,
                                   !.did = @ \cup {"sha"}]
                  w2 == write(w1, e.fname, "sha1date", strftime(t), ok2)
              IN [w2 EXCEPT !.ui = add_file(@, "completed", e.fname),
                            !.did = @ \cup {"completed"}]
         ELSE LET w1 == [wv EXCEPT !.files[i].sha_hash = sha_content,
                                   !.did = @ \cup {"sha", "errors"}]
                  w2 == write(w1, e.fname, "sha1", sha_content, ok1)
              IN [w2 EXCEPT !.ui = add_file(@, "errors", e.fname)]

\* verify that reports a match without refreshing sha_date.
verify_norefresh(w, i, t, ok1, ok2) ==
    LET e  == w.files[i]
        wv == [w EXCEPT !.did = @ \cup {"verify"}] IN
    IF e.sha_hash = None
    THEN update(wv, i, FALSE, t, ok1, ok2)
    ELSE IF ~fs[e.fname].readable
    THEN [wv EXCEPT !.raised = TRUE, !.did = @ \cup {"raise"}]
    ELSE LET sha_content == sha1hex(fs[e.fname].data) IN
         IF sha_content = e.sha_hash
         THEN [wv EXCEPT !.ui = add_file(@, "completed", e.fname),
                         !.did = @ \cup {"sha", "completed"}]
         ELSE [wv EXCEPT !.ui = add_file(@, "errors", e.fname),
                         !.did = @ \cup {"sha", "errors"}]

\* MetaDataEntry.verify on files[i]
verify(w, i, t, ok1, ok2) ==
    LET e  == w.files[i]
        wv == [w EXCEPT !.did = @ \cup {"verify"}] IN
    IF e.sha_hash = None
    THEN update(wv, i, FALSE, t, ok1, ok2)
    ELSE IF ~fs[e.fname].readable
    THEN [wv EXCEPT !.raised = TRUE, !.did = @ \cup {"raise"}]
    ELSE LET sha_content == sha1hex(fs[e.fname].data) IN
         IF sha_content = e.sha_hash
         THEN LET w1 == [wv EXCEPT !.files[i].sha_date = <<t>>,
                                   !.did = @ \cup {"sha"}]
                  w2 == write(w1, e.fname, "sha1date", strftime(t), ok2)
              IN [w2 EXCEPT !.ui = add_file(@, "completed", e.fname),
                            !.did = @ \cup {"completed"}]
         ELSE [wv EXCEPT !.ui = add_file(@, "errors", e.fname),
                         !.did = @ \cup {"sha", "errors"}]

\* The comparison with <= in place of <.
older_or_equal(sha_date, min_date) == sha_date[1] <= min_date[1]

\* The comparison of verify_older: is sha_date before min_date?
older(sha_date, min_date) == sha_date[1] < min_date[1]

\* MetaDataEntry.verify_older on files[i]
verify_older(w, i, min_date, t, ok1, ok2) ==
    LET e == w.files[i] IN
    IF e.sha_date = NoDate \/ older(e.sha_date, min_date)
    THEN verify(w, i, t, ok1, ok2)
    ELSE w

\* -------------------------------------------------------- FileSystemTree
\* The getfattr dump: one record for each path that carries an attribute.
Dump(tree, st) ==
    SelectSeq([k \in DOMAIN tree |->
                  [fname |-> tree[k], sha1 |-> st[tree[k]].sha1,
                   sha1date |-> st[tree[k]].sha1date]],
              LAMBDA r : r.sha1 # None \/ r.sha1date # NoDate)

\* FileSystemTree.parse_facl_output: the entries yielded for the records
\* recs, entered with the parser's sha_hash and sha_date.
RECURSIVE parse_facl_output(_, _, _)
parse_facl_output(recs, sha_hash, sha_date) ==
    IF recs = << >> THEN << >>
    ELSE LET r == Head(recs)
             h == IF r.sha1 # None THEN r.sha1 ELSE sha_hash
             d == IF r.sha1date # NoDate THEN <<strptime(r.sha1date)>>
                  ELSE sha_date
         IN IF h # None /\ d # NoDate
            THEN <<MetaDataEntry(r.fname, h, d)>>
                 \o parse_facl_output(Tail(recs), None, NoDate)
            ELSE parse_facl_output(Tail(recs), h, d)

\* FileSystemTree.get_files: one empty entry per file found, replaced by the
\* entry parsed for the same name.
get_files(tree, st) ==
    LET parsed == parse_facl_output(Dump(tree, st), None, NoDate)
        Last(fname) ==
            LET hits == {j \in DOMAIN parsed : parsed[j].fname = fname}
            IN parsed[CHOOSE j \in hits : \A k \in hits : k <= j]
    IN [k \in DOMAIN tree |->
           IF \E j \in DOMAIN parsed : parsed[j].fname = tree[k]
           THEN Last(tree[k])
           ELSE MetaDataEntry(tree[k], None, NoDate)]

\* ------------------------------------------------------------------ state
NoCall == [op |-> "none", fname |-> << >>, did |-> {}, days |-> 0, took |-> 0,
           pre |-> MetaDataEntry(<< >>, None, NoDate),
           pre_store |-> [sha1 |-> None, sha1date |-> NoDate],
           pre_ui |-> NoUi, min_date |-> NoDate,
           after |-> [op |-> "none", fname |-> << >>, sha |-> FALSE]]

\* The record of a call op on files[i] that ended in world w.
Call(op, i, days, min_date, dt, w) ==
    [op |-> op, fname |-> files[i].fname, did |-> w.did, days |-> days,
     took |-> dt,
     pre |-> files[i], pre_store |-> store[files[i].fname],
     pre_ui |-> ui, min_date |-> min_date,
     after |-> [op |-> last.op, fname |-> last.fname,
                sha |-> "sha" \in last.did]]

NoArgs == [compute |-> FALSE, sha |-> FALSE, verify |-> <<DefaultAge>>,
           print_duplicates |-> FALSE, print_deduplication_sh |-> FALSE]

\* Nothing reported yet. failed: the names verify() filed under errors in the
\* running invocation; mismatch: <<name, days, stored digest>> of the
\* mismatches reported by the invocations that have ended, for the files
\* whose bytes have not been changed since.
NoHist == [failed |-> {}, mismatch |-> {}]

\* Dates a tree may carry from earlier invocations or an older version.
StoredDates == {NoDate, <<0>>, <<0, 0>>}

Files(tree) ==
    [Range(tree) -> [data : Contents, readable : BOOLEAN, nlink : {1}]]

Stores(tree) ==
    [Range(tree) -> [sha1 : Digests \cup {None}, sha1date : StoredDates]]

ScreenLines == MinScreenLines..MaxScreenLines

GroupIdle ==
    /\ known_hashes = [h \in Digests |-> 0]
    /\ duplicates = << >>
    /\ out = << >>

\* --------------------------------------------------------------- SpecEntry
\* One entry, loaded from the attributes its file carries; its methods are
\* then called in any order while the clock runs and the file may change.
InitEntry ==
    /\ hist = NoHist
    /\ fs \in Files(EntryTree)
    /\ store \in Stores(EntryTree)
    /\ now = 0
    /\ files = get_files(EntryTree, store)
    /\ \E y \in ScreenLines : ui = NewUi(y, Len(EntryTree))
    /\ pc = "entry"
    /\ idx = 1
    /\ args = NoArgs
    /\ min_age = NoDate
    /\ runs = 0
    /\ last = NoCall
    /\ GroupIdle

\* Reading a file takes time: a call that computes a digest reads the clock
\* (localtime()) dt seconds after it was entered.
Durations == {0, 1}

Finish(w, dt, call) ==
    /\ now + dt <= MaxTime
    /\ dt = 0 \/ "sha" \in w.did
    /\ now' = now + dt
    /\ files' = w.files
    /\ store' = w.store
    /\ ui' = w.ui
    /\ last' = call

\* fobj.update(force)
CallUpdate ==
    /\ pc = "entry"
    /\ ui.scanned_items < MaxScanned
    /\ \E i \in DOMAIN files, force \in BOOLEAN, dt \in Durations,
          ok1 \in BOOLEAN, ok2 \in BOOLEAN :
          LET w == update(World(files, store, ui), i, force, now + dt, ok1, ok2)
          IN Finish(w, dt, Call(IF force THEN "update_forced" ELSE "update",
                                i, 0, NoDate, dt, w))
    /\ UNCHANGED hist
    /\ UNCHANGED <<fs, pc, idx, args, min_age, runs,
                   known_hashes, duplicates, out>>

\* fobj.verify()
CallVerify ==
    /\ pc = "entry"
    /\ \E i \in DOMAIN files, dt \in Durations, ok1 \in BOOLEAN, ok2 \in BOOLEAN :
          LET w == verify(World(files, store, ui), i, now + dt, ok1, ok2)
          IN Finish(w, dt, Call("verify", i, 0, NoDate, dt, w))
    /\ UNCHANGED hist
    /\ UNCHANGED <<fs, pc, idx, args, min_age, runs,
                   known_hashes, duplicates, out>>

\* The cutoff of verify_files: (datetime.now() - timedelta(days)).timetuple()
Cutoff(t, days) == <<t - days * DayLen>>

Ages == (0..MaxAge) \cup {DefaultAge}

\* fobj.verify_older(min_date)
CallVerifyOlder ==
    /\ pc = "entry"
    /\ \E i \in DOMAIN files, days \in Ages, dt \in Durations,
          ok1 \in BOOLEAN, ok2 \in BOOLEAN :
          LET w == verify_older(World(files, store, ui), i,
                                Cutoff(now, days), now + dt, ok1, ok2)
          IN Finish(w, dt, Call("verify_older", i, days, Cutoff(now, days), dt, w))
    /\ UNCHANGED hist
    /\ UNCHANGED <<fs, pc, idx, args, min_age, runs,
                   known_hashes, duplicates, out>>

\* Time passes between calls (SpecEntry) or between invocations (Spec).
Tick ==
    /\ pc \in {"entry", "shell"}
    /\ now < MaxTime
    /\ now' = now + 1
    /\ last' = [NoCall EXCEPT !.op = "tick"]
    /\ UNCHANGED hist
    /\ UNCHANGED <<fs, store, files, ui, pc, idx, args, min_age, runs,
                   known_hashes, duplicates, out>>

\* The bytes of a file change behind the program's back.
Tamper ==
    /\ pc \in {"entry", "shell"}
    /\ \E p \in DOMAIN fs, c \in Contents :
          /\ c # fs[p].data
          /\ fs' = [fs EXCEPT ![p].data = c]
          /\ hist' = [hist EXCEPT !.mismatch = {m \in @ : m[1] # p}]
    /\ last' = [NoCall EXCEPT !.op = "tamper"]
    /\ UNCHANGED <<store, now, files, ui, pc, idx, args, min_age, runs,
                   known_hashes, duplicates, out>>

NextEntry == CallUpdate \/ CallVerify \/ CallVerifyOlder \/ Tick \/ Tamper

SpecEntry == InitEntry /\ [][NextEntry]_vars

\* -------------------------------------------------------------------- Spec
\* get_arguments: what argparse can return. --verify is an int with default
\* 180, never None (kept as a one-element tuple so that None is << >>); at
\* most one of the four flags is given.
ArgSets ==
    {a \in [compute : BOOLEAN, sha : BOOLEAN, verify : {<<d>> : d \in Ages},
            print_duplicates : BOOLEAN, print_deduplication_sh : BOOLEAN] :
        Cardinality({f \in {"compute", "sha", "print_duplicates",
                            "print_deduplication_sh"} : a[f]}) <= 1}

\* The if/elif chain of __main__ with its branches in another order: the
\* printers are tested before --verify.
dispatch_printers_first(a) ==
    IF a.compute THEN "update_files"
    ELSE IF a.sha THEN "sha"
    ELSE IF a.print_duplicates THEN "print_duplicates"
    ELSE IF a.print_deduplication_sh THEN "print_deduplication_sh"
    ELSE IF a.verify # << >> THEN "verify_files"
    ELSE "exit"

\* The if/elif chain of __main__: the branch taken for the arguments a.
dispatch(a) ==
    IF a.compute THEN "update_files"
    ELSE IF a.sha THEN "sha"
    ELSE IF a.verify # << >> THEN "verify_files"
    ELSE IF a.print_duplicates THEN "print_duplicates"
    ELSE IF a.print_deduplication_sh THEN "print_deduplication_sh"
    ELSE "exit"

\* A tree as earlier invocations, older versions and other programs left it.
Init ==
    /\ hist = NoHist
    /\ fs \in Files(Tree)
    /\ store \in Stores(Tree)
    /\ now = 0
    /\ files = << >>
    /\ ui = NoUi
    /\ pc = "shell"
    /\ idx = 0
    /\ args = NoArgs
    /\ min_age = NoDate
    /\ runs = 0
    /\ last = NoCall
    /\ GroupIdle

\* __main__ up to the first turn of the loop of the branch taken:
\* get_arguments, FileSystemTree(args.path), the if/elif chain, and the head
\* of update_files / verify_files. MetaDataEntry.sha(args.path) lacks its
\* fname argument: the --sha branch ends in a TypeError.
Main ==
    /\ pc = "shell"
    /\ runs < MaxRuns
    /\ runs' = runs + 1
    /\ \E a \in ArgSets, y \in ScreenLines :
          /\ args' = a
          /\ files' = get_files(Tree, store)
          /\ pc' = IF dispatch(a) = "sha" THEN "crashed" ELSE dispatch(a)
          /\ ui' = IF dispatch(a) \in {"update_files", "verify_files"}
                   THEN NewUi(y, Len(Tree)) ELSE NoUi
          /\ min_age' = IF dispatch(a) = "verify_files"
                        THEN Cutoff(now, a.verify[1]) ELSE NoDate
    /\ idx' = 1
    /\ last' = [NoCall EXCEPT !.op = "main"]
    /\ UNCHANGED hist
    /\ UNCHANGED <<fs, store, now, known_hashes, duplicates, out>>

\* The end of one turn of a loop over files: an exception ends the process,
\* otherwise update_progress() and the next entry, or the end of the program.
TurnEnd(w, dt, call) ==
    /\ Finish([w EXCEPT !.ui = IF w.raised THEN @ ELSE update_progress(@)],
              dt, call)
    /\ pc' = IF w.raised THEN "crashed"
             ELSE IF idx = Len(files) THEN "exit" ELSE pc
    /\ idx' = IF w.raised THEN idx ELSE idx + 1

\* One turn of the loop of update_files (forced is always False).
UpdateFilesStep ==
    /\ pc = "update_files"
    /\ \E dt \in Durations, ok1 \in BOOLEAN, ok2 \in BOOLEAN :
          LET w == update(World(files, store, ui), idx, FALSE, now + dt, ok1, ok2)
          IN TurnEnd(w, dt, Call("update", idx, 0, NoDate, dt, w))
    /\ UNCHANGED hist
    /\ UNCHANGED <<fs, args, min_age, runs, known_hashes, duplicates, out>>

\* One turn of the loop of verify_files.
VerifyFilesStep ==
    /\ pc = "verify_files"
    /\ \E dt \in Durations, ok1 \in BOOLEAN, ok2 \in BOOLEAN :
          LET w == verify_older(World(files, store, ui), idx, min_age,
                                now + dt, ok1, ok2)
          IN /\ TurnEnd(w, dt, Call("verify_older", idx, args.verify[1],
                                    min_age, dt, w))
             /\ hist' = [hist EXCEPT !.failed =
                            IF "errors" \in w.did
                            THEN @ \cup {files[idx].fname} ELSE @]
    /\ UNCHANGED <<fs, args, min_age, runs, known_hashes, duplicates, out>>

\* The process is gone, with its objects; the files and their attributes stay.
Exit ==
    /\ pc \in {"exit", "crashed"}
    /\ pc' = "shell"
    /\ files' = << >>
    /\ ui' = NoUi
    /\ idx' = 0
    /\ args' = NoArgs
    /\ min_age' = NoDate
    /\ last' = NoCall
    /\ hist' = [failed |-> {},
                mismatch |-> hist.mismatch \cup
                    {<<f, args.verify[1], store[f].sha1>> : f \in hist.failed}]
    /\ UNCHANGED <<fs, store, now, runs, known_hashes, duplicates, out>>

Next == Main \/ UpdateFilesStep \/ VerifyFilesStep \/ Exit \/ Tick \/ Tamper

Spec == Init /\ [][Next]_vars

\* --------------------------------------------------------------- SpecGroup
\* The names of the files handed to the grouper: f, f', f'f, f'ff, ...
GroupName(k) == [j \in 1..k |-> IF j = 2 THEN "'" ELSE "f"]
GroupTree == [k \in 1..NumEntries |-> GroupName(k)]

\* os.stat(fname).st_nlink
st_nlink(fname) == fs[fname].nlink

\* The position of digest h in the dict duplicates, 0 when it is no key.
DupKey(dups, h) ==
    IF \E j \in DOMAIN dups : dups[j].h = h
    THEN CHOOSE j \in DOMAIN dups : dups[j].h = h
    ELSE 0

\* duplicates.get(h, set())
DupSet(dups, h) == IF DupKey(dups, h) = 0 THEN {} ELSE dups[DupKey(dups, h)].dup

\* The loop body of _get_duplicates that files every entry with a known digest
\* as a duplicate, whatever its link count.
get_duplicates_step_anylink(kh, dups, k) ==
    LET fobj == files[k] IN
    IF fobj.sha_hash = None THEN [known_hashes |-> kh, duplicates |-> dups]
    ELSE IF kh[fobj.sha_hash] # 0
    THEN [known_hashes |-> kh,
          duplicates |->
              IF DupKey(dups, fobj.sha_hash) = 0
              THEN Append(dups, [h |-> fobj.sha_hash, dup |-> {k}])
              ELSE [dups EXCEPT ![DupKey(dups, fobj.sha_hash)].dup = @ \cup {k}]]
    ELSE [known_hashes |-> [kh EXCEPT ![fobj.sha_hash] = k],
          duplicates |-> dups]

\* The loop body with the link-count test inverted.
get_duplicates_step_linked(kh, dups, k) ==
    LET fobj == files[k] IN
    IF fobj.sha_hash = None THEN [known_hashes |-> kh, duplicates |-> dups]
    ELSE IF kh[fobj.sha_hash] # 0 /\ st_nlink(fobj.fname) # 1
    THEN [known_hashes |-> kh,
          duplicates |->
              IF DupKey(dups, fobj.sha_hash) = 0
              THEN Append(dups, [h |-> fobj.sha_hash, dup |-> {k}])
              ELSE [dups EXCEPT ![DupKey(dups, fobj.sha_hash)].dup = @ \cup {k}]]
    ELSE [known_hashes |-> [kh EXCEPT ![fobj.sha_hash] = k],
          duplicates |-> dups]

\* The loop body that keeps the first representative of a digest for good.
get_duplicates_step_keepfirst(kh, dups, k) ==
    LET fobj == files[k] IN
    IF fobj.sha_hash = None THEN [known_hashes |-> kh, duplicates |-> dups]
    ELSE IF kh[fobj.sha_hash] # 0 /\ st_nlink(fobj.fname) = 1
    THEN [known_hashes |-> kh,
          duplicates |->
              IF DupKey(dups, fobj.sha_hash) = 0
              THEN Append(dups, [h |-> fobj.sha_hash, dup |-> {k}])
              ELSE [dups EXCEPT ![DupKey(dups, fobj.sha_hash)].dup = @ \cup {k}]]
    ELSE [known_hashes |-> IF kh[fobj.sha_hash] # 0 THEN kh
                           ELSE [kh EXCEPT ![fobj.sha_hash] = k],
          duplicates |-> dups]

\* The loop body of _get_duplicates for the entry files[k]: the two dicts
\* after it. An entry is named by its position in files.
get_duplicates_step(kh, dups, k) ==
    LET fobj == files[k] IN
    IF fobj.sha_hash = None THEN [known_hashes |-> kh, duplicates |-> dups]
    ELSE IF kh[fobj.sha_hash] # 0 /\ st_nlink(fobj.fname) = 1
    THEN [known_hashes |-> kh,
          duplicates |->
              IF DupKey(dups, fobj.sha_hash) = 0
              THEN Append(dups, [h |-> fobj.sha_hash, dup |-> {k}])
              ELSE [dups EXCEPT ![DupKey(dups, fobj.sha_hash)].dup = @ \cup {k}]]
    ELSE [known_hashes |-> [kh EXCEPT ![fobj.sha_hash] = k],
          duplicates |-> dups]

\* A set of entries in the order rank gives them (a Python set of objects is
\* iterated in an order the program does not control).
RECURSIVE InOrder(_, _)
InOrder(S, rank) ==
    IF S = {} THEN << >>
    ELSE LET k == CHOOSE x \in S : \A y \in S : rank[x] <= rank[y]
         IN <<k>> \o InOrder(S \ {k}, rank)

Rankings == {r \in [DOMAIN files -> DOMAIN files] :
                \A x, y \in DOMAIN files : x # y => r[x] # r[y]}

\* ", ".join(names)
RECURSIVE join(_)
join(names) ==
    IF names = << >> THEN << >>
    ELSE IF Len(names) = 1 THEN names[1]
    ELSE names[1] \o <<",", " ">> \o join(Tail(names))

\* "ln -f %s %s" % (shellquote(src), shellquote(dst))
ln_line(src, dst) ==
    <<"l", "n", " ", "-", "f", " ">> \o shellquote(src) \o <<" ">> \o shellquote(dst)

\* The line print_duplicates prints for one digest: print(h, name, "-->", ...)
\* (a digest is one symbol of the line).
report_line(h, src, dups) ==
    <<h, " ">> \o src \o <<" ", "-", "-", ">", " ">> \o join(dups)

\* The script with the two arguments of ln exchanged.
RECURSIVE script_lines_swapped(_, _)
script_lines_swapped(j, rank) ==
    IF j > Len(duplicates) THEN << >>
    ELSE LET src == files[known_hashes[duplicates[j].h]]
             dup == InOrder(duplicates[j].dup, rank)
         IN [n \in DOMAIN dup |-> ln_line(files[dup[n]].fname, src.fname)]
            \o script_lines_swapped(j + 1, rank)

\* The lines print_deduplication_sh prints for the dict items from position j.
RECURSIVE script_lines(_, _)
script_lines(j, rank) ==
    IF j > Len(duplicates) THEN << >>
    ELSE LET src == files[known_hashes[duplicates[j].h]]
             dup == InOrder(duplicates[j].dup, rank)
         IN [n \in DOMAIN dup |-> ln_line(src.fname, files[dup[n]].fname)]
            \o script_lines(j + 1, rank)

\* The lines print_duplicates prints for the dict items.
report_lines(rank) ==
    [j \in DOMAIN duplicates |->
        LET dup == InOrder(duplicates[j].dup, rank)
        IN report_line(duplicates[j].h,
                       files[known_hashes[duplicates[j].h]].fname,
                       [n \in DOMAIN dup |-> files[dup[n]].fname])]

\* "Checking for duplicates." and "#!/bin/sh"
CheckingLine ==
    <<"C", "h", "e", "c", "k", "i", "n", "g", " ", "f", "o", "r", " ",
      "d", "u", "p", "l", "i", "c", "a", "t", "e", "s", ".">>
ShebangLine == <<"#", "!", "/", "b", "i", "n", "/", "s", "h">>

\* A tree whose attributes are complete, with any link counts, loaded.
InitGroup ==
    /\ hist = NoHist
    /\ fs \in [Range(GroupTree) ->
                 [data : {"c1"}, readable : {TRUE}, nlink : 1..MaxLinks]]
    /\ store \in [Range(GroupTree) ->
                    {[sha1 |-> None, sha1date |-> NoDate]}
                    \cup [sha1 : Digests, sha1date : {<<0, 0>>}]]
    /\ now = 0
    /\ files = get_files(GroupTree, store)
    /\ ui = NoUi
    /\ pc = "group"
    /\ idx = 0
    /\ args = NoArgs
    /\ min_age = NoDate
    /\ runs = 0
    /\ last = NoCall
    /\ GroupIdle

\* print_duplicates / print_deduplication_sh up to the call of _get_duplicates.
CallPrinter ==
    /\ pc = "group"
    /\ \E printer \in {"print_duplicates", "print_deduplication_sh"} :
          /\ pc' = printer
          /\ out' = IF printer = "print_duplicates"
                    THEN <<CheckingLine>>
                    ELSE <<ShebangLine>>
    /\ idx' = 1
    /\ UNCHANGED hist
    /\ UNCHANGED <<fs, store, now, files, ui, args, min_age, runs, last,
                   known_hashes, duplicates>>

\* One turn of the loop of _get_duplicates.
GetDuplicatesStep ==
    /\ pc \in {"print_duplicates", "print_deduplication_sh"}
    /\ idx \in DOMAIN files
    /\ LET r == get_duplicates_step(known_hashes, duplicates, idx)
       IN /\ known_hashes' = r.known_hashes
          /\ duplicates' = r.duplicates
    /\ idx' = idx + 1
    /\ UNCHANGED hist
    /\ UNCHANGED <<fs, store, now, files, ui, pc, args, min_age, runs, last, out>>

\* print_duplicates after _get_duplicates returned.
PrintDuplicates ==
    /\ pc = "print_duplicates"
    /\ idx = Len(files) + 1
    /\ \E rank \in Rankings : out' = out \o report_lines(rank)
    /\ pc' = "printed_duplicates"
    /\ UNCHANGED hist
    /\ UNCHANGED <<fs, store, now, files, ui, idx, args, min_age, runs, last,
                   known_hashes, duplicates>>

\* print_deduplication_sh after _get_duplicates returned.
PrintDeduplicationSh ==
    /\ pc = "print_deduplication_sh"
    /\ idx = Len(files) + 1
    /\ \E rank \in Rankings : out' = out \o script_lines(1, rank)
    /\ pc' = "printed_sh"
    /\ UNCHANGED hist
    /\ UNCHANGED <<fs, store, now, files, ui, idx, args, min_age, runs, last,
                   known_hashes, duplicates>>

\* ln -f src dst, run for each line of the script from position n on: the
\* name dst is removed and made one more name of the storage of src. ino
\* gives the storage a name points to, cnt the names each storage has; a
\* line that is no such command, or names no file, changes nothing.
RECURSIVE run_script(_, _, _, _)
run_script(lines, n, ino, cnt) ==
    IF n > Len(lines) THEN [ino |-> ino, cnt |-> cnt]
    ELSE LET cmd == sh_words(lines[n])
             w   == cmd.words
         IN IF /\ cmd.ok
               /\ ~cmd.glob
               /\ Len(w) = 4
               /\ w[1] = <<"l", "n">>
               /\ w[2] = <<"-", "f">>
               /\ w[3] \in DOMAIN ino
               /\ w[4] \in DOMAIN ino
               /\ ino[w[3]] # ino[w[4]]
            THEN run_script(lines, n + 1,
                            [ino EXCEPT ![w[4]] = ino[w[3]]],
                            [cnt EXCEPT ![ino[w[3]]] = @ + 1,
                                        ![ino[w[4]]] = @ - 1])
            ELSE run_script(lines, n + 1, ino, cnt)

\* The printed script is run by /bin/sh and the program is started again on
\* the same tree. Every name starts on storage of its own (the other names
\* of a file with st_nlink > 1 lie outside the tree); data and extended
\* attributes belong to the storage.
ApplyScript ==
    /\ pc = "printed_sh"
    /\ runs + 1 < MaxRuns
    /\ runs' = runs + 1
    /\ LET r == run_script(out, 2, [p \in DOMAIN fs |-> p],
                           [p \in DOMAIN fs |-> fs[p].nlink])
       IN /\ fs' = [p \in DOMAIN fs |->
                       [fs[r.ino[p]] EXCEPT !.nlink = r.cnt[r.ino[p]]]]
          /\ store' = [p \in DOMAIN store |-> store[r.ino[p]]]
          /\ files' = get_files(GroupTree, store')
    /\ pc' = "group"
    /\ idx' = 0
    /\ known_hashes' = [h \in Digests |-> 0]
    /\ duplicates' = << >>
    /\ out' = << >>
    /\ UNCHANGED <<now, ui, args, min_age, last, hist>>

NextGroup ==
    \/ CallPrinter
    \/ GetDuplicatesStep
    \/ PrintDuplicates
    \/ PrintDeduplicationSh
    \/ ApplyScript

SpecGroup == InitGroup /\ [][NextGroup]_vars

\* ------------------------------------------------- claims on SpecGroup
Nlink(k) == st_nlink(files[k].fname)
Dups(h) == DupSet(duplicates, h)
AllDups == UNION {duplicates[j].dup : j \in DOMAIN duplicates}
WithDigest(h) == {k \in DOMAIN files : files[k].sha_hash = h}
Grouped == pc # "group" /\ idx = Len(files) + 1

\* C8: at every point of the scan no entry with st_nlink > 1 is in a duplicate
\* set, and an entry is in a duplicate set (that of its own digest) only if it
\* has been processed, an earlier entry had put its digest into known_hashes,
\* and its st_nlink is exactly 1.
C8_LinkCountInvariant ==
    \A j \in DOMAIN duplicates : \A k \in duplicates[j].dup :
        /\ ~(Nlink(k) > 1)
        /\ Nlink(k) = 1
        /\ k < idx
        /\ files[k].sha_hash = duplicates[j].h
        /\ \E i \in 1..(k - 1) : files[i].sha_hash = files[k].sha_hash
        /\ known_hashes[files[k].sha_hash] # 0

\* A finished scan with a duplicate set and a hard-linked entry whose digest
\* had been seen before it.
C8_Witness ==
    /\ Grouped
    /\ AllDups # {}
    /\ \E k \in DOMAIN files :
          /\ Nlink(k) > 1
          /\ \E i \in 1..(k - 1) : /\ files[i].sha_hash = files[k].sha_hash
                                   /\ files[k].sha_hash # None

\* Exactly three entries carry digest h: two hard-linked ones and one with
\* st_nlink = 1.
LinkedPairAndCopy(h) ==
    /\ Cardinality(WithDigest(h)) = 3
    /\ Cardinality({k \in WithDigest(h) : Nlink(k) = 1}) = 1
    /\ Cardinality({k \in WithDigest(h) : Nlink(k) >= 2}) = 2

Copy(h) == CHOOSE k \in WithDigest(h) : Nlink(k) = 1

\* C9 as claimed: in every processing order the independent copy is in the
\* duplicate set of the digest and no hard-linked entry is in any.
C9_AsClaimed ==
    \A h \in Digests :
        (Grouped /\ LinkedPairAndCopy(h))
        => /\ Copy(h) \in Dups(h)
           /\ \A k \in WithDigest(h) \ {Copy(h)} : k \notin AllDups

\* C9, amended: no hard-linked entry is in any duplicate set, in every order;
\* the independent copy is the only possible member of the digest's duplicate
\* set and is in it exactly when a hard-linked entry is processed before it.
C9_HardLinkExclusion ==
    \A h \in Digests :
        (Grouped /\ LinkedPairAndCopy(h))
        => /\ \A k \in WithDigest(h) \ {Copy(h)} : k \notin AllDups
           /\ Dups(h) \subseteq {Copy(h)}
           /\ (Copy(h) \in Dups(h))
                <=> (\E k \in WithDigest(h) : k < Copy(h))

\* The pair and the copy, the copy processed between the two linked entries
\* and filed as a duplicate.
C9_Witness ==
    \E h \in Digests :
        /\ Grouped
        /\ LinkedPairAndCopy(h)
        /\ Copy(h) \in Dups(h)
        /\ \E k \in WithDigest(h) : k > Copy(h)

\* The first three entries A, B, C carry digest h with st_nlink 1, 2, 1 and
\* no other entry carries h.
OverrideCase(h) ==
    /\ WithDigest(h) = {1, 2, 3}
    /\ Nlink(1) = 1 /\ Nlink(2) = 2 /\ Nlink(3) = 1

\* The names of B and C in the fixture, shell-quoted.
QuotedB == <<"'", "f", "'", "\\", "'", "'", "'">>
QuotedC == <<"'", "f", "'", "\\", "'", "'", "f", "'">>

\* C10: with A, B, C of one digest processed in that order, st_nlink 1, 2, 1,
\* B is the representative once B has been processed, C is the one duplicate,
\* and the report and the script name B, not A, as the source for C.
C10_RepresentativeOverride ==
    \A h \in Digests :
        (OverrideCase(h) /\ pc # "group")
        => /\ idx >= 3 => known_hashes[h] = 2
           /\ idx = 2 => known_hashes[h] = 1
           /\ idx >= 4 => Dups(h) = {3}
           /\ pc = "printed_sh"
                => /\ \E n \in DOMAIN out :
                         out[n] = <<"l", "n", " ", "-", "f", " ">>
                                  \o QuotedB \o <<" ">> \o QuotedC
                   /\ Cardinality({n \in DOMAIN out :
                         /\ Len(out[n]) > Len(QuotedC)
                         /\ SubSeq(out[n], Len(out[n]) - Len(QuotedC),
                                   Len(out[n])) = <<" ">> \o QuotedC}) = 1
           /\ pc = "printed_duplicates"
                => /\ (<<h, " ", "f", "'", " ", "-", "-", ">", " ", "f", "'", "f">>)
                         \in Range(out)
                   /\ Cardinality({n \in DOMAIN out : out[n][1] = h}) = 1

\* The script printed for A, B, C.
C10_Witness ==
    \E h \in Digests : OverrideCase(h) /\ pc = "printed_sh" /\ Len(out) >= 2

\* ------------------------------------------------- claims on SpecEntry
\* The entry of the file the latest call was made on, and its attributes.
LastEntry == files[CHOOSE i \in DOMAIN files : files[i].fname = last.fname]
LastStore == store[last.fname]
IsCall == last.op \in {"update", "update_forced", "verify", "verify_older"}
Writes == {"write_sha1", "write_sha1date", "lost_sha1", "lost_sha1date"}

\* C1: when verify() recomputes, for an entry that has a digest, a digest that
\* differs from it, the path goes to the errors list and not to the completed
\* list, nothing is written, and the digest and the timestamp of the entry and
\* of the attribute store are what they were before the call.
C1_MismatchKeepsState ==
    (/\ IsCall
     /\ "verify" \in last.did
     /\ last.pre.sha_hash # None
     /\ "raise" \notin last.did
     /\ sha1hex(fs[last.fname].data) # last.pre.sha_hash)
    => /\ "errors" \in last.did
       /\ "completed" \notin last.did
       /\ ui.errors # << >>
       /\ ui.errors[Len(ui.errors)] = last.fname
       /\ ui.completed = last.pre_ui.completed
       /\ last.did \cap Writes = {}
       /\ LastEntry = last.pre
       /\ LastStore = last.pre_store

\* A mismatch found by verify() on an entry that carries a digest and a
\* timestamp, both also in the store.
C1_Witness ==
    /\ last.op = "verify"
    /\ "errors" \in last.did
    /\ last.pre.sha_date # NoDate
    /\ last.pre_store.sha1 = last.pre.sha_hash
    /\ last.pre_store.sha1date # NoDate
    /\ sha1hex(fs[last.fname].data) # last.pre.sha_hash

\* C2: verify_older(now - N days) calls verify() exactly when the entry has
\* no timestamp or one strictly before the cutoff; otherwise it changes
\* nothing (a timestamp equal to the cutoff does not trigger verification).
C2_StalenessGate ==
    last.op = "verify_older"
    => LET cutoff == (now - last.took) - last.days * DayLen
           stale  == \/ last.pre.sha_date = NoDate
                     \/ last.pre.sha_date[1] < cutoff
       IN /\ ("verify" \in last.did) <=> stale
          /\ ~stale => /\ last.did = {}
                        /\ LastEntry = last.pre
                        /\ LastStore = last.pre_store
                        /\ ui = last.pre_ui

\* verify_older on a timestamp equal to the cutoff: no verification.
C2_Witness ==
    /\ last.op = "verify_older"
    /\ last.pre.sha_date = <<(now - last.took) - last.days * DayLen>>
    /\ "verify" \notin last.did

\* C6: update(force=False) on an entry that has a digest computes no digest
\* and writes nothing: entry and store are unchanged, call after call.
C6_UpdateIdempotent ==
    (last.op = "update" /\ last.pre.sha_hash # None)
    => /\ "sha" \notin last.did
       /\ last.did \cap Writes = {}
       /\ LastEntry = last.pre
       /\ LastStore = last.pre_store

\* Two update(force=False) in a row on an entry with a digest that no longer
\* matches the file.
C6_Witness ==
    /\ last.op = "update"
    /\ last.after.op = "update"
    /\ last.pre.sha_hash # None
    /\ last.pre.sha_hash # sha1hex(fs[last.fname].data)

\* C7: verify() right after an update() that computed the digest of the same,
\* unchanged file ends Verified (path to the completed list), keeps the digest
\* update() computed, and sets the timestamp to the time of the verify() call
\* (in the store too when setfattr succeeds).
C7_RoundTrip ==
    (/\ last.op = "verify"
     /\ last.after.op \in {"update", "update_forced"}
     /\ last.after.fname = last.fname
     /\ last.after.sha)
    => /\ "completed" \in last.did
       /\ "errors" \notin last.did
       /\ ui.errors = last.pre_ui.errors
       /\ WindowLines(ui, "completed") > 1
            => /\ ui.completed # << >>
               /\ ui.completed[Len(ui.completed)] = last.fname
       /\ LastEntry.sha_hash = last.pre.sha_hash
       /\ LastEntry.sha_hash = sha1hex(fs[last.fname].data)
       /\ LastStore.sha1 = last.pre_store.sha1
       /\ LastEntry.sha_date = <<now>>
       /\ "write_sha1date" \in last.did
            => /\ LastStore.sha1date = strftime(now)
               /\ strptime(LastStore.sha1date) = now

\* update() at one time, verify() at a later time, both reaching the store.
C7_Witness ==
    /\ last.op = "verify"
    /\ last.after.op \in {"update", "update_forced"}
    /\ last.after.sha
    /\ "write_sha1date" \in last.did
    /\ last.pre.sha_date # <<now>>
    /\ last.pre_store.sha1 = last.pre.sha_hash

\* ------------------------------------------------------ claims on Spec
\* C3: a file that cannot be read while update_files / verify_files works on
\* it is classified Failed (its path in the errors list), nothing propagates,
\* and the run goes on with the next entry.
C3_ReadErrorIsolated ==
    (last.op \in {"update", "verify_older"} /\ "raise" \in last.did)
    => /\ pc \in {"update_files", "verify_files", "exit"}
       /\ "errors" \in last.did
       /\ \E n \in DOMAIN ui.errors : ui.errors[n] = last.fname

\* C4: a file whose attributes hold a digest and no timestamp is, in a
\* verification run with any age, verified against that digest: when the
\* content no longer matches it the file is reported Failed and the digest is
\* kept; when it matches, the file is not reported Failed and the timestamp is
\* written (where setfattr succeeds).
C4_PartialWriteTolerated ==
    (/\ last.op = "verify_older"
     /\ last.pre_store.sha1 # None
     /\ last.pre_store.sha1date = NoDate
     /\ fs[last.fname].readable)
    => /\ "verify" \in last.did
       /\ sha1hex(fs[last.fname].data) # last.pre_store.sha1
            => /\ "errors" \in last.did
               /\ LastStore.sha1 = last.pre_store.sha1
       /\ sha1hex(fs[last.fname].data) = last.pre_store.sha1
            => /\ "errors" \notin last.did
               /\ "write_sha1date" \in last.did => LastStore.sha1date = strftime(now)

\* C5: asked for the duplicate report or the deduplication script and for no
\* other mode, the program runs the grouper and the printer; it neither runs
\* update_files or verify_files nor writes an attribute.
C5_PrinterSelected ==
    (/\ args.print_duplicates \/ args.print_deduplication_sh
     /\ ~args.compute
     /\ ~args.sha)
    => /\ pc \notin {"update_files", "verify_files"}
       /\ last.did \cap Writes = {}

\* C13: when a verification run over n entries ends, scanned_items is n, and
\* an entry that ended Failed is counted in err_items and listed among the
\* failing paths.
C13_VerificationSummary ==
    (pc = "exit" /\ dispatch(args) = "verify_files")
    => /\ ui.scanned_items = Len(files)
       /\ "errors" \in last.did
            => /\ ui.err_items >= 1
               /\ last.fname \in Range(ui.errors)

\* The digest and the timestamp stored on the path of the entry e.
Stored(e) == store[e.fname]

\* Absent digest implies absent timestamp, for the pair d.
DigestFirst(d) == d.sha1 = None => d.sha1date = NoDate

\* C15: a call on an entry whose stored pair has no timestamp without a
\* digest leaves no timestamp without a digest, neither in the entry nor in
\* the store, whichever of the two setfattr runs fails.
C15_DigestBeforeTimestamp ==
    (IsCall /\ DigestFirst(last.pre_store))
    => /\ DigestFirst(LastStore)
       /\ LastEntry.sha_hash = None => LastEntry.sha_date = NoDate

\* C16: a mismatch reported by an earlier invocation, on a file whose bytes
\* have not been changed since, is reported Failed again by every
\* verification run with the same or a smaller age, and the digest stored on
\* the path is still the one it was.
C16_MismatchPersists ==
    (pc \in {"exit", "crashed"} /\ dispatch(args) = "verify_files")
    => \A m \in hist.mismatch :
          args.verify[1] <= m[2]
          => /\ m[1] \in hist.failed
             /\ store[m[1]].sha1 = m[3]

\* C18: every entry built by get_files carries a digest or a timestamp only
\* if both are stored on its own path, and carries those.
C18_NoAttributeLeak ==
    (last.op = "main" /\ files # << >>)
    => \A k \in DOMAIN files :
          (files[k].sha_hash # None \/ files[k].sha_date # NoDate)
          => /\ Stored(files[k]).sha1 = files[k].sha_hash
             /\ Stored(files[k]).sha1date # NoDate
             /\ files[k].sha_date = <<strptime(Stored(files[k]).sha1date)>>

\* --------------------------------------------------------------- SpecQuote
\* shellquote applied to every file name of up to MaxPathLen characters, and
\* the quoted text read back the way a POSIX shell reads a command line.
PathChars == {"a", " ", "'", "*", "\\"}
PathNames == UNION {[1..n -> PathChars] : n \in 0..MaxPathLen}

InitQuote ==
    /\ hist = NoHist
    /\ fs = << >>
    /\ store = << >>
    /\ now = 0
    /\ files = << >>
    /\ ui = NoUi
    /\ pc = "quote"
    /\ idx = 0
    /\ args = NoArgs
    /\ min_age = NoDate
    /\ runs = 0
    /\ last = NoCall
    /\ known_hashes = [h \in Digests |-> 0]
    /\ duplicates = << >>
    /\ \E s \in PathNames : out = <<s>>

\* shellquote(s)
Quote ==
    /\ pc = "quote"
    /\ out' = <<out[1], shellquote(out[1])>>
    /\ pc' = "quoted"
    /\ UNCHANGED hist
    /\ UNCHANGED <<fs, store, now, files, ui, idx, args, min_age, runs, last,
                   known_hashes, duplicates>>

\* A shell reads the quoted text.
ShellRead ==
    /\ pc = "quoted"
    /\ out' = <<out[1], out[2], sh_words(out[2])>>
    /\ pc' = "read"
    /\ UNCHANGED hist
    /\ UNCHANGED <<fs, store, now, files, ui, idx, args, min_age, runs, last,
                   known_hashes, duplicates>>

NextQuote == Quote \/ ShellRead

SpecQuote == InitQuote /\ [][NextQuote]_vars

\* ------------------------------------------------- claims on SpecQuote
\* The number of single quotes in s.
Quotes(s) == Cardinality({i \in DOMAIN s : s[i] = "'"})

\* it's a file.txt
ItsAFile == <<"i", "t", "'", "s", " ", "a", " ", "f", "i", "l", "e", ".",
              "t", "x", "t">>
\* 'it'\''s a file.txt'
ItsAFileQuoted == <<"'", "i", "t", "'", "\\", "'", "'", "s", " ", "a", " ",
                    "f", "i", "l", "e", ".", "t", "x", "t", "'">>

\* C14: shellquote(p) is p between single quotes with each single quote of p
\* turned into the four characters '\'' ; a POSIX shell reads the result as
\* the one word p, with no pathname expansion; it's a file.txt gives
\* 'it'\''s a file.txt'.
C14_ShellQuoting ==
    /\ shellquote(ItsAFile) = ItsAFileQuoted
    /\ pc \in {"quoted", "read"}
         => LET p == out[1]
                q == out[2]
            IN /\ Len(q) = Len(p) + 2 + 3 * Quotes(p)
               /\ q[1] = "'"
               /\ q[Len(q)] = "'"
               /\ Quotes(q) = 2 + 3 * Quotes(p)
    /\ pc = "read"
         => out[3] = [words |-> <<out[1]>>, ok |-> TRUE, glob |-> FALSE]

\* A name with a quote, a blank and a star, quoted and read back.
C14_Witness ==
    /\ pc = "read"
    /\ {"'", " ", "*"} \subseteq Range(out[1])
    /\ out[3].words = <<out[1]>>

\* ------------------------------------------- further claims on SpecGroup
\* The first entry, in processing order, that carries digest h.
FirstWith(h) == CHOOSE k \in WithDigest(h) : \A j \in WithDigest(h) : k <= j

\* C11: when n >= 2 entries carry digest h and all of them have st_nlink = 1,
\* the scan ends with the first of them as representative and all the others,
\* and nothing else, as its duplicate set.
C11_BaselineGrouping ==
    \A h \in Digests :
        (/\ Grouped
         /\ Cardinality(WithDigest(h)) >= 2
         /\ \A k \in WithDigest(h) : Nlink(k) = 1)
        => /\ known_hashes[h] = FirstWith(h)
           /\ Dups(h) = WithDigest(h) \ {FirstWith(h)}
           /\ \A g \in Digests \ {h} : Dups(g) \cap WithDigest(h) = {}

\* A, B, C of one digest, all with st_nlink = 1, scanned.
C11_Witness ==
    \E h \in Digests :
        /\ Grouped
        /\ WithDigest(h) = {1, 2, 3}
        /\ \A k \in WithDigest(h) : Nlink(k) = 1
        /\ Dups(h) = {2, 3}

\* The digest in whose duplicate set entry k is.
DupDigest(k) == CHOOSE h \in Digests : k \in Dups(h)

\* C12: the script is the line #!/bin/sh followed by exactly one ln -f line
\* for each member of each duplicate set and nothing else; the line of a
\* duplicate names as source the representative recorded for its digest, an
\* entry other than the duplicate that carries the same digest.
C12_ScriptShape ==
    pc = "printed_sh"
    => /\ out[1] = ShebangLine
       /\ Len(out) = 1 + Cardinality(AllDups)
       /\ \A k \in AllDups :
             LET src == known_hashes[DupDigest(k)] IN
             /\ src \in DOMAIN files
             /\ src # k
             /\ files[src].sha_hash = files[k].sha_hash
             /\ Cardinality({n \in 2..Len(out) :
                   out[n] = <<"l", "n", " ", "-", "f", " ">>
                            \o shellquote(files[src].fname) \o <<" ">>
                            \o shellquote(files[k].fname)}) = 1
       /\ \A n \in 2..Len(out) : \E k \in AllDups :
             out[n] = <<"l", "n", " ", "-", "f", " ">>
                      \o shellquote(files[known_hashes[DupDigest(k)]].fname)
                      \o <<" ">> \o shellquote(files[k].fname)

\* A script with two ln lines.
C12_Witness ==
    /\ pc = "printed_sh"
    /\ Len(out) = 3
    /\ Cardinality(AllDups) = 2

\* The entries that take the place of representative of digest h when they
\* are processed: the first one with h and every one with st_nlink # 1.
Reps(h) == {j \in WithDigest(h) : j = FirstWith(h) \/ Nlink(j) # 1}

Latest(S) == CHOOSE j \in S : \A i \in S : i <= j

\* The representative of the digest of entry k at the moment k is processed.
RepAt(k) == Latest({j \in Reps(files[k].sha_hash) : j < k})

\* The representative of digest h when the scan has ended.
LastRep(h) == Latest(Reps(h))

\* The ln lines of the printed script.
LnLines == {out[n] : n \in 2..Len(out)}

\* C17 as claimed: the script links each duplicate against the entry that
\* was the representative of its digest when the duplicate was processed.
C17_AsClaimed ==
    pc = "printed_sh"
    => \A k \in AllDups :
          ln_line(files[RepAt(k)].fname, files[k].fname) \in LnLines

\* C17, amended: there is one duplicate set per digest, and script and report
\* name for every member of it the representative that stands when the scan
\* has ended, also for the members processed before that entry took the
\* place of an earlier one.
C17_FinalRepresentative ==
    /\ pc = "printed_sh"
         => \A k \in AllDups :
               /\ ln_line(files[LastRep(DupDigest(k))].fname, files[k].fname)
                     \in LnLines
               /\ RepAt(k) # LastRep(DupDigest(k))
                    => ln_line(files[RepAt(k)].fname, files[k].fname)
                          \notin LnLines
    /\ pc = "printed_duplicates"
         => \A j \in DOMAIN duplicates :
               LET h    == duplicates[j].h
                   head == <<h, " ">> \o files[LastRep(h)].fname \o <<" ", "-">>
               IN SubSeq(out[j + 1], 1, Len(head)) = head

\* A script printed for A, B, C of one digest where B was filed under A and
\* the hard-linked C then took A's place.
C17_Witness ==
    /\ pc = "printed_sh"
    /\ \E k \in AllDups :
          /\ RepAt(k) # LastRep(DupDigest(k))
          /\ ln_line(files[LastRep(DupDigest(k))].fname, files[k].fname)
                \in LnLines

\* C19: when the printed script has been run and the program is started
\* again on the same tree, the scan files no entry as a duplicate and the
\* script it prints has no ln line.
C19_DedupFixpoint ==
    (runs >= 1 /\ pc # "group")
    => /\ duplicates = << >>
       /\ AllDups = {}
       /\ pc = "printed_sh" => out = <<ShebangLine>>
       /\ pc = "printed_duplicates" => out = <<CheckingLine>>

\* The second script, printed after a first one whose ln lines took the link
\* count of a file above what the tree started with.
C19_Witness ==
    /\ runs >= 1
    /\ pc = "printed_sh"
    /\ out = <<ShebangLine>>
    /\ \E k \in DOMAIN files : Nlink(k) > MaxLinks

\* Entry k has a digest, st_nlink = 1, and another entry has the same digest.
UnlinkedCopy(k) ==
    /\ files[k].sha_hash # None
    /\ Nlink(k) = 1
    /\ Cardinality(WithDigest(files[k].sha_hash)) >= 2

\* C20 as claimed: every such entry ends as the representative of its digest
\* or in the duplicate set of its digest.
C20_AsClaimed ==
    \A k \in DOMAIN files :
        (Grouped /\ UnlinkedCopy(k))
        => \/ known_hashes[files[k].sha_hash] = k
           \/ k \in Dups(files[k].sha_hash)

\* C20, amended: such an entry is in the duplicate set of its digest unless
\* it is the first entry with that digest; the first one is in no duplicate
\* set, and it is the representative exactly when no later entry of the
\* digest has st_nlink # 1, else it is left out.
C20_UnlinkedCopies ==
    \A k \in DOMAIN files :
        (Grouped /\ UnlinkedCopy(k))
        => LET h == files[k].sha_hash IN
           /\ k # FirstWith(h) => k \in Dups(h)
           /\ k = FirstWith(h)
                => /\ k \notin AllDups
                   /\ (known_hashes[h] = k)
                        <=> (\A j \in WithDigest(h) \ {k} : Nlink(j) = 1)

\* An unlinked first copy followed by a hard-linked entry of the same digest:
\* neither representative nor duplicate.
C20_Witness ==
    \E k \in DOMAIN files :
        /\ Grouped
        /\ UnlinkedCopy(k)
        /\ k = FirstWith(files[k].sha_hash)
        /\ known_hashes[files[k].sha_hash] # k
        /\ k \notin AllDups

====
